---- MODULE Spec2Model ----
(***************************************************************************)
(* Model of app.py: the pipeline that turns a free-form list of PyPI       *)
(* package names / GitHub repository references into a table ranked by     *)
(* the number of dependents.                                               *)
(*                                                                         *)
(* Strings are sequences of symbols.  A symbol is one character, except    *)
(* for a few multi-character words that the code only ever treats as a     *)
(* unit:                                                                   *)
(*   "G"  the literal text github.com                                      *)
(*   "H"  the text GitHub.com (equal to github.com only after .lower())    *)
(*   "R"  the word Repositories,  "r" the word repositories                *)
(*   ":"  any character that is neither a slash, nor white space, nor one  *)
(*        of the characters allowed in a repository id (":", "#", "?")     *)
(*   "x"  any other text on a page                                         *)
(*   "https:", "network", "dependents"  pieces of the generated links      *)
(* "NL" is the newline character.                                          *)
(***************************************************************************)
EXTENDS Integers, Sequences, FiniteSets, TLC

VARIABLES
    world,           \* what the three remote endpoints answer right now
    hasKey,          \* st.secrets holds a truthy LIBRARIES_IO_API_KEY
    cache,           \* st.cache_data store: entries [scope, key, val, left]
    pc,              \* "idle" | "loop": position inside aggregate_statistics
    input_text,      \* argument of the running / last aggregate_statistics call
    items,           \* local: tokens of input_text
    i,               \* local: number of tokens processed so far
    results,         \* local: rows appended so far
    added_gh_repos,  \* local: set of repository ids already added
    resolved,        \* history: gh_repo computed for each processed token
    events,          \* history: cached lookups made by the last loop iteration
    ret,             \* outcome of the last aggregate_statistics call
    hist,            \* history: tables returned less than 24 h ago, per text
    fin,             \* argument of a helper function called on its own
    fout,            \* its result
    fpc              \* "off" | "ready" | "done"

vars == <<world, hasKey, cache, pc, input_text, items, i, results,
          added_gh_repos, resolved, events, ret, hist, fin, fout, fpc>>

aggVars == <<world, hasKey, cache, pc, input_text, items, i, results,
             added_gh_repos, resolved, events, ret, hist>>

funVars == <<fin, fout, fpc>>

----------------------------------------------------------------------------
(* Bounds *)

MaxStrLen == 5      \* longest string handed to parse_github_repo
MaxUrls == 2        \* most entries of project_urls
MaxNodeLen == 4     \* longest text node of a dependents page
MaxTokens == 3      \* most tokens of an input text

----------------------------------------------------------------------------
(* Characters and string primitives *)

Spaces == {" ", "NL"}

\* the class [A-Za-z0-9_\-\.]
IdChars == {"a", "b", "c", "d", "p", "q", "G", "H"}

Min(S) == CHOOSE x \in S : \A y \in S : x <= y

RECURSIVE LStrip(_)
LStrip(s) ==
    IF s # <<>> /\ Head(s) \in Spaces THEN LStrip(Tail(s)) ELSE s

RECURSIVE RStrip(_)
RStrip(s) ==
    IF s # <<>> /\ s[Len(s)] \in Spaces THEN RStrip(SubSeq(s, 1, Len(s) - 1)) ELSE s

\* str.strip()
Strip(s) == RStrip(LStrip(s))

\* str.lower()
Lower(s) == [k \in 1..Len(s) |-> IF s[k] = "H" THEN "G" ELSE s[k]]

\* "github.com" in s
HasMarker(s) == \E k \in 1..Len(s) : s[k] = "G"

\* first position >= k holding "/", or Len(s)+1
NextSlash(s, k) == Min({j \in k..(Len(s) + 1) : j = Len(s) + 1 \/ s[j] = "/"})

\* re.search(r"github\.com\/([^/]+\/[^/]+)", s).group(1), <<>> when no match
SearchGithubPath(s) ==
    LET Ok(k) == /\ s[k] = "G"
                 /\ s[k + 1] = "/"
                 /\ LET e1 == NextSlash(s, k + 2)
                    IN  /\ e1 > k + 2
                        /\ e1 <= Len(s)
                        /\ NextSlash(s, e1 + 1) > e1 + 1
        starts == {k \in 1..(Len(s) - 1) : Ok(k)}
    IN  IF starts = {} THEN <<>>
        ELSE LET k == Min(starts)
                 e1 == NextSlash(s, k + 2)
                 e2 == NextSlash(s, e1 + 1)
             IN  SubSeq(s, k + 2, e2 - 1)

\* re.match(r"^[A-Za-z0-9_\-\.]+\/[A-Za-z0-9_\-\.]+$", s)
MatchesOwnerRepo(s) ==
    \E k \in 2..(Len(s) - 1) :
        /\ s[k] = "/"
        /\ \A j \in 1..Len(s) : j # k => s[j] \in IdChars

\* the two return statements, m being match.group(1) or <<>>
ReturnParsed(repo_str, m) ==
    IF m # <<>> THEN Strip(m)
    ELSE IF MatchesOwnerRepo(Strip(repo_str)) THEN Strip(repo_str)
    ELSE <<>>

parse_github_repo(repo_str) ==
    ReturnParsed(repo_str,
                 IF HasMarker(repo_str) THEN SearchGithubPath(Strip(repo_str)) ELSE <<>>)

----------------------------------------------------------------------------
(* get_github_repo_from_pypi: the function body, given the answer to its GET. *)
(* A response is [raised, status, malformed, home_page, project_urls]:       *)
(* raised = requests.get raised (network error, timeout), malformed =        *)
(* resp.json() raised; home_page <<>> stands for an empty or null field.     *)

\* stops at the first candidate holding the marker, whatever the parser says
ScanUrlsFirstMarkerOnly(urls) ==
    LET idx == {k \in 1..Len(urls) : urls[k] # <<>> /\ HasMarker(Lower(urls[k]))}
    IN  IF idx = {} THEN <<>> ELSE parse_github_repo(urls[Min(idx)])

\* the loop "for url in urls_to_check"
\* one candidate: <<>> unless it holds the marker and the parser yields an id
RepoIdOf(url) ==
    IF url # <<>> /\ HasMarker(Lower(url)) THEN parse_github_repo(url) ELSE <<>>

RECURSIVE ScanUrls(_)
ScanUrls(urls) ==
    IF urls = <<>> THEN <<>>
    ELSE IF RepoIdOf(Head(urls)) # <<>> THEN RepoIdOf(Head(urls))
    ELSE ScanUrls(Tail(urls))

urls_to_check(resp) == <<resp.home_page>> \o resp.project_urls

get_github_repo_from_pypi(resp) ==
    IF resp.raised THEN <<>>
    ELSE IF resp.status = 200
         THEN IF resp.malformed THEN <<>> ELSE ScanUrls(urls_to_check(resp))
         ELSE <<>>

----------------------------------------------------------------------------
(* get_github_repo_from_librariesio: the function body, given the answer     *)
(* to its GET: [raised, status, malformed, repository_url].                  *)

get_github_repo_from_librariesio(resp) ==
    IF resp.raised THEN <<>>
    ELSE IF resp.status = 200
         THEN IF resp.malformed THEN <<>>
              ELSE RepoIdOf(resp.repository_url)
         ELSE <<>>

----------------------------------------------------------------------------
(* get_repo_deps_via_github: the function body, given the answer to its GET: *)
(* [raised, status, page], page the sequence of text nodes of the parsed     *)
(* HTML in document order.                                                   *)

Digits == {"0", "1", "2", "5"}

DigitVal(c) == CASE c = "0" -> 0 [] c = "1" -> 1 [] c = "2" -> 2 [] c = "5" -> 5

\* the class [0-9,]
DigitOrComma(c) == c \in Digits \cup {","}

\* re.compile(r"[0-9,]+\s+Repositories").search(node) finds a match
NodeMatches(node) ==
    \E j, k \in 1..Len(node) :
        /\ DigitOrComma(node[j])
        /\ k > j + 1
        /\ \A m \in (j + 1)..(k - 1) : node[m] \in Spaces
        /\ node[k] = "R"

\* soup.find(string=...): the first matching text node, <<>> for None
SoupFind(page) ==
    LET idx == {n \in 1..Len(page) : NodeMatches(page[n])}
    IN  IF idx = {} THEN <<>> ELSE page[Min(idx)]

\* re.search(r"([0-9,]+)", node).group(1): the first run of digits and commas
FirstNumber(node) ==
    LET starts == {j \in 1..Len(node) : DigitOrComma(node[j])}
    IN  IF starts = {} THEN <<>>
        ELSE LET j == Min(starts)
                 e == Min({k \in j..Len(node) :
                             k = Len(node) \/ ~DigitOrComma(node[k + 1])})
             IN  SubSeq(node, j, e)

\* str.replace(",", "")
StripCommas(s) == SelectSeq(s, LAMBDA c : c # ",")

\* int(s) of a non-empty digit string
RECURSIVE ToInt(_)
ToInt(s) ==
    IF s = <<>> THEN 0 ELSE 10 * ToInt(SubSeq(s, 1, Len(s) - 1)) + DigitVal(s[Len(s)])

\* lines 89-92 for the text node found; int("") raises ValueError, caught at line 95
CountIn(repo_deps_str) ==
    IF repo_deps_str = <<>> THEN 0
    ELSE IF StripCommas(FirstNumber(repo_deps_str)) = <<>> THEN 0
    ELSE ToInt(StripCommas(FirstNumber(repo_deps_str)))

\* reports a failed fetch as -1 instead of 0
get_repo_deps_failure_marker(resp) ==
    IF resp.raised \/ resp.status # 200 THEN -1 ELSE CountIn(SoupFind(resp.page))

get_repo_deps_via_github(resp) ==
    IF resp.raised THEN 0
    ELSE IF resp.status # 200 THEN 0
    ELSE CountIn(SoupFind(resp.page))

----------------------------------------------------------------------------
(* st.cache_data: one store, an entry per (decorated function, argument).    *)
(* left is the time in seconds until the entry expires; expired entries are  *)
(* dropped when time advances.                                               *)

TTL_PYPI == 60 * 60 * 24 * 7
TTL_DEPS == 60 * 60 * 48
TTL_LIB == 60 * 60 * 48
TTL_AGG == 60 * 60 * 24

TTL(scope) ==
    CASE scope = "pypi" -> TTL_PYPI
      [] scope = "deps" -> TTL_DEPS
      [] scope = "lib" -> TTL_LIB
      [] scope = "agg" -> TTL_AGG

\* the entries a call of function `scope` with argument `key` may be served from
Lookup(c, scope, key) == {e \in c : e.scope = scope /\ e.key = key}

\* never serves a call from the store
CacheNeverHit(c, scope, key) == FALSE

CacheHit(c, scope, key) == Lookup(c, scope, key) # {}

CacheVal(c, scope, key) == (CHOOSE e \in Lookup(c, scope, key) : TRUE).val

\* does not keep an empty resolution result
CacheStoreSkipEmpty(c, scope, key, val) ==
    IF scope \in {"pypi", "lib"} /\ val = <<>> THEN c
    ELSE (c \ Lookup(c, scope, key))
             \cup {[scope |-> scope, key |-> key, val |-> val, left |-> TTL(scope)]}

CacheStore(c, scope, key, val) ==
    (c \ Lookup(c, scope, key))
        \cup {[scope |-> scope, key |-> key, val |-> val, left |-> TTL(scope)]}

\* the store after d seconds
CacheAfter(c, d) ==
    {[e EXCEPT !.left = e.left - d] : e \in {x \in c : x.left > d}}

----------------------------------------------------------------------------
(* The remote endpoints *)

NotFound == [raised |-> FALSE, status |-> 404, malformed |-> FALSE,
             home_page |-> <<>>, project_urls |-> <<>>,
             repository_url |-> <<>>, page |-> <<>>]

\* requests.get(url, timeout=10) for the URL built from k
Get(endpoint, k) == IF k \in DOMAIN endpoint THEN endpoint[k] ELSE NotFound

\* the call ended in a non-success status, a network error or an unreadable body
Failed(resp) == resp.raised \/ resp.status # 200 \/ resp.malformed

----------------------------------------------------------------------------
(* aggregate_statistics *)

None == <<>>

Separators == {","} \cup Spaces

RECURSIVE DropSeparators(_)
DropSeparators(s) ==
    IF s # <<>> /\ Head(s) \in Separators THEN DropSeparators(Tail(s)) ELSE s

\* re.split(r"[,\n\s]+", s): the pieces between runs of separators
RECURSIVE ReSplit(_, _)
ReSplit(s, cur) ==
    IF s = <<>> THEN <<cur>>
    ELSE IF Head(s) \in Separators
         THEN <<cur>> \o ReSplit(DropSeparators(s), <<>>)
         ELSE ReSplit(Tail(s), Append(cur, Head(s)))

\* lines 141-142
Tokenize(text) ==
    LET raw_items == ReSplit(Strip(text), <<>>)
        kept == SelectSeq(raw_items, LAMBDA x : Strip(x) # <<>>)
    IN  [k \in 1..Len(kept) |-> Strip(kept[k])]

GithubLink(gh_repo) == <<"https:", "/", "/", "G", "/">> \o gh_repo

DependentsLink(gh_repo) == GithubLink(gh_repo) \o <<"/", "network", "/", "dependents">>

Row(lib, deps_count, github_link, dependents_link) ==
    [Name |-> lib, NumberOfDependents |-> deps_count,
     GitHubRepo |-> github_link, DependentsPage |-> dependents_link]

Event(scope, key, hit, resp, val) ==
    [scope |-> scope, key |-> key, hit |-> hit,
     failed |-> (~hit /\ Failed(resp)), val |-> val]

\* a call of a function decorated with st.cache_data: [val, cache, ev]
CachedCall(c, scope, key, resp, computed) ==
    IF CacheHit(c, scope, key)
    THEN [val |-> CacheVal(c, scope, key), cache |-> c,
          ev |-> Event(scope, key, TRUE, resp, CacheVal(c, scope, key))]
    ELSE [val |-> computed, cache |-> CacheStore(c, scope, key, computed),
          ev |-> Event(scope, key, FALSE, resp, computed)]

\* lines 132-134: r1 is the outcome of the primary lookup
ResolveFallback(r1, r2) ==
    [val |-> r2.val, cache |-> r2.cache, evs |-> <<r1.ev, r2.ev>>]

ResolveAfterPrimary(r1, w, key, pkg_name) ==
    IF r1.val = <<>> /\ key
    THEN ResolveFallback(r1,
             CachedCall(r1.cache, "lib", pkg_name, Get(w.lib, pkg_name),
                        get_github_repo_from_librariesio(Get(w.lib, pkg_name))))
    ELSE [val |-> r1.val, cache |-> r1.cache, evs |-> <<r1.ev>>]

\* queries the fallback without looking at the credential
resolve_without_key_check(c, w, key, pkg_name) ==
    ResolveAfterPrimary(
        CachedCall(c, "pypi", pkg_name, Get(w.pypi, pkg_name),
                   get_github_repo_from_pypi(Get(w.pypi, pkg_name))),
        w, TRUE, pkg_name)

\* resolve_github_repo_from_package: [val, cache, evs]
resolve_github_repo_from_package(c, w, key, pkg_name) ==
    ResolveAfterPrimary(
        CachedCall(c, "pypi", pkg_name, Get(w.pypi, pkg_name),
                   get_github_repo_from_pypi(Get(w.pypi, pkg_name))),
        w, key, pkg_name)

\* never recognises a duplicate
NeverAdded(gh_repo, added) == FALSE

\* "if gh_repo in added_gh_repos" (line 158)
AlreadyAdded(gh_repo, added) == gh_repo \in added

\* lines 163-183 for a new repository: d is the outcome of the dependents lookup
EmitKnown(added, rows, lib, res, d) ==
    [cache |-> d.cache, added |-> added \cup {res.val},
     rows |-> Append(rows, Row(lib, <<d.val>>, GithubLink(res.val),
                               DependentsLink(res.val))),
     evs |-> Append(res.evs, d.ev), gh_repo |-> res.val]

\* lines 158-183: res is the outcome of lines 153-156, res.val being gh_repo
AfterResolve(w, added, rows, lib, res) ==
    IF AlreadyAdded(res.val, added)
    THEN [cache |-> res.cache, added |-> added, rows |-> rows,
          evs |-> res.evs, gh_repo |-> res.val]
    ELSE IF res.val # <<>>
    THEN EmitKnown(added, rows, lib, res,
             CachedCall(res.cache, "deps", res.val, Get(w.deps, res.val),
                        get_repo_deps_via_github(Get(w.deps, res.val))))
    ELSE [cache |-> res.cache, added |-> added,
          rows |-> Append(rows, Row(lib, None, None, None)),
          evs |-> res.evs, gh_repo |-> res.val]

\* lines 154-183: direct is the result of parse_github_repo(lib)
AfterParse(c, w, key, added, rows, lib, direct) ==
    AfterResolve(w, added, rows, lib,
                 IF direct = <<>>
                 THEN resolve_github_repo_from_package(c, w, key, lib)
                 ELSE [val |-> direct, cache |-> c, evs |-> <<>>])

\* one iteration of "for i, lib in enumerate(items)" (lines 150-183):
\* [cache, added, rows, evs, gh_repo]
LoopBody(c, w, key, added, rows, lib) ==
    AfterParse(c, w, key, added, rows, lib, parse_github_repo(lib))

Known(row) == row.NumberOfDependents # None

Count(row) == row.NumberOfDependents[1]

Perms(n) == Permutations(1..n)

\* sorts ascending instead of descending
sort_values_ascending(rows) ==
    {[k \in 1..Len(rows) |-> rows[p[k]]] : p \in
        {q \in Perms(Len(rows)) :
            \A a, b \in 1..Len(rows) : a < b =>
                /\ Known(rows[q[b]]) => Known(rows[q[a]])
                /\ (Known(rows[q[a]]) /\ Known(rows[q[b]]))
                       => Count(rows[q[a]]) <= Count(rows[q[b]])
                /\ (~Known(rows[q[a]]) /\ ~Known(rows[q[b]])) => q[a] < q[b]}}

\* df.sort_values(by="Number of dependents", ascending=False).reset_index(drop=True)
\* on a non-empty frame: the tables the call can return.  The default sort kind is
\* quicksort, which does not promise an order among equal keys; rows whose key is
\* missing are appended in their original order (na_position="last").
sort_values(rows) ==
    {[k \in 1..Len(rows) |-> rows[p[k]]] : p \in
        {q \in Perms(Len(rows)) :
            \A a, b \in 1..Len(rows) : a < b =>
                /\ Known(rows[q[b]]) => Known(rows[q[a]])
                /\ (Known(rows[q[a]]) /\ Known(rows[q[b]]))
                       => Count(rows[q[a]]) >= Count(rows[q[b]])
                /\ (~Known(rows[q[a]]) /\ ~Known(rows[q[b]])) => q[a] < q[b]}}

NoReturn == [kind |-> "none", table |-> <<>>, cached |-> FALSE,
             again |-> FALSE, prev |-> <<>>, now |-> FALSE]

Returned(kind, table, cached, prior) ==
    [kind |-> kind, table |-> table, cached |-> cached,
     again |-> (prior # {}), now |-> TRUE,
     prev |-> IF prior = {} THEN <<>> ELSE (CHOOSE h \in prior : TRUE).table]

\* the tables returned for `text` since the last advance of time
Prior(text) == {h \in hist : h.text = text}

Remember(text, table) == (hist \ Prior(text)) \cup {[text |-> text, table |-> table]}

\* aggregate_statistics(text) is called: served from the store, or the body starts
Call(text) ==
    /\ pc = "idle"
    /\ input_text' = text
    /\ IF CacheHit(cache, "agg", text)
       THEN /\ ret' = Returned("table", CacheVal(cache, "agg", text), TRUE, Prior(text))
            /\ hist' = Remember(text, CacheVal(cache, "agg", text))
            /\ pc' = "idle"
            /\ items' = <<>>
       ELSE /\ ret' = NoReturn
            /\ hist' = hist
            /\ pc' = "loop"
            /\ items' = Tokenize(text)
    /\ i' = 0
    /\ results' = <<>>
    /\ added_gh_repos' = {}
    /\ resolved' = <<>>
    /\ events' = <<>>
    /\ UNCHANGED <<world, hasKey, cache, funVars>>

\* the locals after an iteration whose outcome is b
Iterate(b) ==
    /\ cache' = b.cache
    /\ added_gh_repos' = b.added
    /\ results' = b.rows
    /\ events' = b.evs
    /\ resolved' = Append(resolved, b.gh_repo)

\* one iteration of the loop over items
ProcessToken ==
    /\ pc = "loop"
    /\ i < Len(items)
    /\ Iterate(LoopBody(cache, world, hasKey, added_gh_repos, results, items[i + 1]))
    /\ i' = i + 1
    /\ UNCHANGED <<world, hasKey, pc, input_text, items, ret, hist, funVars>>

\* lines 185-192: the frame is built and sorted; on an empty frame sort_values
\* raises KeyError (the frame has no column to sort by), and st.cache_data stores
\* nothing for a call that raised
Finish ==
    /\ pc = "loop"
    /\ i = Len(items)
    /\ pc' = "idle"
    /\ IF results = <<>>
       THEN /\ ret' = Returned("raise", <<>>, FALSE, Prior(input_text))
            /\ UNCHANGED <<cache, hist>>
       ELSE \E df \in sort_values(results) :
            /\ ret' = Returned("table", df, FALSE, Prior(input_text))
            /\ cache' = CacheStore(cache, "agg", input_text, df)
            /\ hist' = Remember(input_text, df)
    /\ UNCHANGED <<world, hasKey, input_text, items, i, results, added_gh_repos,
                   resolved, events, funVars>>

\* 24 hours pass between two calls (a run itself lasts seconds to minutes: every
\* request has a 10 second timeout, so no entry expires in the middle of a run)
Tick ==
    /\ pc = "idle"
    /\ cache' = CacheAfter(cache, TTL_AGG)
    /\ hist' = {}
    /\ ret' = [ret EXCEPT !.now = FALSE]
    /\ UNCHANGED <<world, hasKey, pc, input_text, items, i, results, added_gh_repos,
                   resolved, events, funVars>>

----------------------------------------------------------------------------
(* Inputs *)

AB == <<"a", "/", "b">>
CD == <<"c", "/", "d">>
PkgP == <<"p">>
PkgQ == <<"q">>

UrlAB == <<"https:", "/", "/", "G", "/", "a", "/", "b">>
UrlCD == <<"https:", "/", "/", "G", "/", "c", "/", "d">>
UrlOwnerA == <<"https:", "/", "/", "G", "/", "a">>
UrlMixedCD == <<"https:", "/", "/", "H", "/", "c", "/", "d">>
UrlOther == <<"https:", "/", "/", "p">>

Raised == [NotFound EXCEPT !.raised = TRUE]
Malformed == [NotFound EXCEPT !.status = 200, !.malformed = TRUE]
PypiOk(home_page, project_urls) ==
    [NotFound EXCEPT !.status = 200, !.home_page = home_page,
                     !.project_urls = project_urls]
LibOk(repository_url) ==
    [NotFound EXCEPT !.status = 200, !.repository_url = repository_url]
DepsOk(page) == [NotFound EXCEPT !.status = 200, !.page = page]

Page5 == << <<"x">>, <<"5", " ", "R">> >>
Page12 == << <<"NL", "1", "2", "NL", " ", "R", "NL">> >>

\* sequences over alphabet of length at most n
StringsUpTo(alphabet, n) == UNION {[1..k -> alphabet] : k \in 0..n}

RECURSIVE Join(_)
Join(words) ==
    IF words = <<>> THEN <<>>
    ELSE IF Len(words) = 1 THEN words[1]
    ELSE words[1] \o <<",", " ">> \o Join(Tail(words))

Words == {AB, <<"G", "/", "a", "/", "b">>, PkgP, PkgQ}

Texts == {Join(ws) : ws \in StringsUpTo(Words, MaxTokens)} \cup {<<",", "NL", " ">>}

Worlds ==
    [pypi : [{PkgP, PkgQ} -> {Raised, Malformed, PypiOk(UrlOwnerA, <<UrlAB>>)}],
     lib : [{PkgP, PkgQ} -> {NotFound, LibOk(UrlCD)}],
     deps : {f \in [{AB, CD} -> {Raised, NotFound, DepsOk(Page5), DepsOk(Page12)}] :
                f[AB] \in {Raised, DepsOk(Page12)} /\ f[CD] # Raised}]

TextsCache == {Join(<<AB, PkgP>>), PkgP}

WorldsCache ==
    {w \in Worlds :
        /\ w.pypi[PkgP] # Malformed /\ w.pypi[PkgQ] = Raised /\ w.lib[PkgQ] = NotFound
        /\ w.deps[CD] # DepsOk(Page12)}

IdleAgg ==
    /\ cache = {}
    /\ pc = "idle"
    /\ input_text = <<>>
    /\ items = <<>>
    /\ i = 0
    /\ results = <<>>
    /\ added_gh_repos = {}
    /\ resolved = <<>>
    /\ events = <<>>
    /\ ret = NoReturn
    /\ hist = {}

IdleFun == fin = <<>> /\ fout = <<>> /\ fpc = "off"

\* the remote data changes
RemoteChange ==
    /\ world' \in WorldsCache \ {world}
    /\ ret' = [ret EXCEPT !.now = FALSE]
    /\ UNCHANGED <<hasKey, cache, pc, input_text, items, i, results, added_gh_repos,
                   resolved, events, hist, funVars>>

----------------------------------------------------------------------------
(* Specifications *)

\* one call of aggregate_statistics in a fresh process
Init ==
    /\ world \in Worlds
    /\ hasKey \in BOOLEAN
    /\ IdleAgg
    /\ IdleFun

Next ==
    \/ \E text \in Texts : ret.kind = "none" /\ Call(text)
    \/ ProcessToken
    \/ Finish

Spec == Init /\ [][Next]_vars

\* a long-running process: repeated calls, time passing, remote data changing
InitCache ==
    /\ world \in WorldsCache
    /\ hasKey \in BOOLEAN
    /\ IdleAgg
    /\ IdleFun

NextCache ==
    \/ \E text \in TextsCache : Call(text)
    \/ ProcessToken
    \/ Finish
    \/ Tick
    \/ RemoteChange

SpecCache == InitCache /\ [][NextCache]_vars

\* parse_github_repo on every short string
ParseAlphabet == {"a", "/", "G", "H", ":", " "}

InitParse ==
    /\ fin \in StringsUpTo(ParseAlphabet, MaxStrLen)
    /\ fout = <<>>
    /\ fpc = "ready"
    /\ world = [pypi |-> <<>>, lib |-> <<>>, deps |-> <<>>]
    /\ hasKey = FALSE
    /\ IdleAgg

RunParse ==
    /\ fpc = "ready"
    /\ fout' = parse_github_repo(fin)
    /\ fpc' = "done"
    /\ UNCHANGED <<aggVars, fin>>

SpecParse == InitParse /\ [][RunParse]_vars

\* get_github_repo_from_pypi on every answer of the registry
CandidateUrls == {<<>>, UrlAB, UrlCD, UrlOwnerA, UrlMixedCD, UrlOther}

PypiResponses(n) ==
    {Raised, NotFound, Malformed}
        \cup {PypiOk(h, us) : h \in CandidateUrls, us \in StringsUpTo(CandidateUrls, n)}

InitPypi ==
    /\ fin \in PypiResponses(MaxUrls)
    /\ fout = <<>>
    /\ fpc = "ready"
    /\ world = [pypi |-> <<>>, lib |-> <<>>, deps |-> <<>>]
    /\ hasKey = FALSE
    /\ IdleAgg

RunPypi ==
    /\ fpc = "ready"
    /\ fout' = get_github_repo_from_pypi(fin)
    /\ fpc' = "done"
    /\ UNCHANGED <<aggVars, fin>>

SpecPypi == InitPypi /\ [][RunPypi]_vars

\* get_repo_deps_via_github on every answer of the dependents page
PageAlphabet == {"1", "2", ",", " ", "R", "r", "x"}

DepsResponses(len) ==
    {Raised, NotFound}
        \cup {DepsOk(<<n>>) : n \in StringsUpTo(PageAlphabet, len)}
        \cup {DepsOk(<<m, n>>) : m \in StringsUpTo(PageAlphabet, 1),
                                 n \in StringsUpTo(PageAlphabet, len)}

InitFetch ==
    /\ fin \in DepsResponses(MaxNodeLen)
    /\ fout = 0
    /\ fpc = "ready"
    /\ world = [pypi |-> <<>>, lib |-> <<>>, deps |-> <<>>]
    /\ hasKey = FALSE
    /\ IdleAgg

RunFetch ==
    /\ fpc = "ready"
    /\ fout' = get_repo_deps_via_github(fin)
    /\ fpc' = "done"
    /\ UNCHANGED <<aggVars, fin>>

SpecFetch == InitFetch /\ [][RunFetch]_vars

----------------------------------------------------------------------------
(* Properties *)

Table == ret.table

Computed == ret.kind = "table" /\ ~ret.cached

Unknown(row) == row.NumberOfDependents = None

Occurrences(seq, x) == Cardinality({k \in 1..Len(seq) : seq[k] = x})

\* C1: the returned table has exactly one row for every repository id some token
\* resolved to, that row carries the name of the first token that resolved to it,
\* and later tokens resolving to the same id add no row.
C1_OneRowPerRepository ==
    Computed =>
        /\ \A k \in 1..Len(resolved) : resolved[k] # <<>> =>
              LET first == Min({j \in 1..Len(resolved) : resolved[j] = resolved[k]})
                  rowsFor == {n \in 1..Len(Table) :
                                 Table[n].GitHubRepo = GithubLink(resolved[k])}
              IN  /\ Cardinality(rowsFor) = 1
                  /\ \A n \in rowsFor : Table[n].Name = items[first]
        /\ Len(Table) =
              Cardinality({resolved[k] : k \in 1..Len(resolved)} \ {<<>>})
                  + Cardinality({k \in 1..Len(resolved) : resolved[k] = <<>>})

C1_Witness ==
    /\ Computed
    /\ \E j, k \in 1..Len(resolved) :
          j < k /\ resolved[j] = resolved[k] /\ resolved[j] # <<>> /\ items[j] # items[k]

\* C2 as stated: the table is the stable descending sort of the emitted rows,
\* rows of equal count (and unknown rows) keeping their input order.
C2_StableOrder ==
    Computed =>
        \E q \in Perms(Len(results)) :
            /\ Table = [k \in 1..Len(results) |-> results[q[k]]]
            /\ \A a, b \in 1..Len(results) : a < b =>
                  /\ Known(results[q[b]]) => Known(results[q[a]])
                  /\ (Known(results[q[a]]) /\ Known(results[q[b]]))
                        => \/ Count(results[q[a]]) > Count(results[q[b]])
                           \/ /\ Count(results[q[a]]) = Count(results[q[b]])
                              /\ q[a] < q[b]
                  /\ (Unknown(results[q[a]]) /\ Unknown(results[q[b]])) => q[a] < q[b]

\* C2 amended: the table holds exactly the emitted rows, no known count follows a
\* smaller known count or an unknown one, and the rows of unknown count appear in
\* their input order.
C2_RankedUnknownLast ==
    Computed =>
        /\ Len(Table) = Len(results)
        /\ \A k \in 1..Len(results) :
              Occurrences(Table, results[k]) = Occurrences(results, results[k])
        /\ \A n \in 1..(Len(Table) - 1) :
              /\ Unknown(Table[n]) => Unknown(Table[n + 1])
              /\ (Known(Table[n]) /\ Known(Table[n + 1]))
                    => Count(Table[n]) >= Count(Table[n + 1])
        /\ SelectSeq(Table, Unknown) = SelectSeq(results, Unknown)

C2_Witness ==
    /\ Computed
    /\ \E a, b, c \in 1..Len(Table) :
          /\ a < b /\ b < c
          /\ Known(Table[a]) /\ Unknown(Table[b]) /\ Unknown(Table[c])
          /\ Table[b].Name # Table[c].Name
    /\ Table # results

\* C3: a call of aggregate_statistics never ends by raising.
C3_NeverRaises == ret.kind # "raise"

\* C6: a failed remote call yields the empty string (resolution) or 0 (dependents);
\* a token whose dependents fetch failed gets a row with count 0 and both links,
\* a token whose resolution lookups all failed gets a row of unknowns; the rows
\* are all in the returned table.
C6_FailuresBecomeSentinels ==
    /\ i > 0 =>
          /\ \A k \in 1..Len(events) : events[k].failed =>
                IF events[k].scope = "deps" THEN events[k].val = 0
                ELSE events[k].val = <<>>
          /\ (\E k \in 1..Len(events) : events[k].scope = "deps" /\ events[k].failed)
                => /\ results # <<>>
                   /\ results[Len(results)] =
                         Row(items[i], <<0>>, GithubLink(resolved[i]),
                             DependentsLink(resolved[i]))
          /\ ( /\ \E k \in 1..Len(events) : events[k].scope = "pypi" /\ events[k].failed
               /\ \A k \in 1..Len(events) : events[k].scope = "lib" => events[k].failed )
                => /\ results # <<>>
                   /\ results[Len(results)] = Row(items[i], None, None, None)
    /\ Computed => \A k \in 1..Len(results) : \E n \in 1..Len(Table) : Table[n] = results[k]

C6_Witness ==
    /\ Computed
    /\ \E k \in 1..Len(events) : events[k].scope = "deps" /\ events[k].failed
    /\ \E n \in 1..Len(Table) : Table[n] = Row(items[i], <<0>>, GithubLink(resolved[i]),
                                               DependentsLink(resolved[i]))
    /\ \E n \in 1..Len(Table) : Unknown(Table[n])

\* the rows a run of the loop over its appends, starting from store c
RECURSIVE RunLoop(_, _, _, _, _, _)
RECURSIVE RunRest(_, _, _, _)
RunRest(b, w, key, its) == RunLoop(b.cache, w, key, b.added, b.rows, its)

RunLoop(c, w, key, added, rows, its) ==
    IF its = <<>> THEN rows
    ELSE RunRest(LoopBody(c, w, key, added, rows, Head(its)), w, key, Tail(its))

\* the tables a run of aggregate_statistics(text) with nothing cached can return
SortedOrNothing(rows) == IF rows = <<>> THEN {} ELSE sort_values(rows)

ColdTables(text, w, key) == SortedOrNothing(RunLoop({}, w, key, {}, <<>>, Tokenize(text)))

C5_FallbackOnlyAfterEmptyPrimary ==
    i > 0 =>
        /\ \A k \in 1..Len(events) : events[k].scope = "lib" =>
              /\ hasKey
              /\ k > 1
              /\ events[k - 1].scope = "pypi"
              /\ events[k - 1].key = events[k].key
              /\ events[k - 1].val = <<>>
        /\ \A k \in 1..Len(events) :
              (events[k].scope = "pypi" /\ (~hasKey \/ events[k].val # <<>>)) =>
                  /\ \A j \in 1..Len(events) : events[j].scope # "lib"
                  /\ resolved[i] = events[k].val
        /\ \A k \in 1..Len(events) : events[k].scope = "pypi" =>
              /\ events[k].key = items[i]
              /\ \/ resolved[i] = events[k].val
                 \/ \E j \in 1..Len(events) :
                       events[j].scope = "lib" /\ resolved[i] = events[j].val

C5_Witness ==
    /\ i > 0
    /\ Len(events) >= 2
    /\ events[1].scope = "pypi" /\ events[1].hit /\ events[1].val = <<>>
    /\ events[2].scope = "lib" /\ ~events[2].hit /\ events[2].val # <<>>

\* C10: in one loop iteration, a lookup is a hit exactly when the store holds an
\* unexpired entry of its own scope for its argument, and then returns the stored
\* value (an empty string or 0 included) and leaves the entry alone; otherwise the
\* function body runs once and the entry is replaced by its result with the full
\* TTL of that scope (7 days, 48 hours, 48 hours); no other entry changes.
C10_CachedLookups ==
    [][(i' = i + 1) =>
        /\ \A k \in 1..Len(events') :
              LET e == events'[k]
                  ttl == CASE e.scope = "pypi" -> 7 * 24 * 60 * 60
                           [] e.scope = "lib" -> 48 * 60 * 60
                           [] e.scope = "deps" -> 48 * 60 * 60
                  old == {x \in cache : x.scope = e.scope /\ x.key = e.key}
                  new == {x \in cache' : x.scope = e.scope /\ x.key = e.key}
              IN  /\ e.hit <=> (old # {})
                  /\ e.hit => (new = old /\ \A x \in old : x.val = e.val /\ x.left > 0)
                  /\ ~e.hit => new = {[scope |-> e.scope, key |-> e.key,
                                       val |-> e.val, left |-> ttl]}
                  /\ \A j \in 1..Len(events') : j # k => events'[j].scope # e.scope
        /\ \A x \in cache \cup cache' :
              (\A k \in 1..Len(events') :
                   events'[k].scope # x.scope \/ events'[k].key # x.key \/ events'[k].hit)
                  => (x \in cache /\ x \in cache')
      ]_vars

C10_Witness ==
    /\ i > 0
    /\ \E j, k \in 1..Len(events) :
          /\ events[j].scope = "pypi" /\ events[j].hit /\ events[j].val = <<>>
          /\ events[k].scope = "lib" /\ ~events[k].hit
          /\ events[j].key = events[k].key
    /\ \E x \in cache : x.scope = "pypi" /\ x.left < 7 * 24 * 60 * 60

\* the RepositoryId invariant: two non-empty segments of letters, digits, "_", "-",
\* "." joined by one "/"
WellFormedId(s) ==
    /\ Cardinality({k \in 1..Len(s) : s[k] = "/"}) = 1
    /\ s[1] # "/" /\ s[Len(s)] # "/"
    /\ \A k \in 1..Len(s) : s[k] = "/" \/ s[k] \in IdChars

\* C8: every non-empty result of parse_github_repo is a well-formed RepositoryId.
C8_ParsedIdWellFormed ==
    (fpc = "done" /\ fout # <<>>) => WellFormedId(fout)

\* the number written in a text node: the digits of the first
\* "<digits> Repositories" match, upper or lower case; <<>> when there is no match
MatchedDigits(node) ==
    LET ends == {j \in 1..Len(node) :
                    /\ DigitOrComma(node[j])
                    /\ \E k \in (j + 2)..Len(node) :
                          /\ node[k] \in {"R", "r"}
                          /\ \A m \in (j + 1)..(k - 1) : node[m] \in Spaces}
    IN  IF ends = {} THEN <<>>
        ELSE LET j == Min(ends)
                 st == Min({a \in 1..j : \A m \in a..j : DigitOrComma(node[m])})
             IN  SubSeq(node, st, j)

\* C7: on a page fetched with status 200, the result is the number written before
\* "Repositories" (matched case-insensitively) in the first text that has such a
\* match, and 0 when no text has one.
C7_CountIsMatchedNumber ==
    (fpc = "done" /\ ~Failed(fin)) =>
        LET hits == {n \in 1..Len(fin.page) : MatchedDigits(fin.page[n]) # <<>>}
        IN  IF hits = {} THEN fout = 0
            ELSE LET digits == StripCommas(MatchedDigits(fin.page[Min(hits)]))
                 IN  digits # <<>> => fout = ToInt(digits)

MarkerCandidates(urls) == {k \in 1..Len(urls) : urls[k] # <<>> /\ HasMarker(Lower(urls[k]))}

\* C9 as stated: the result of the primary lookup is what the parser makes of the
\* first candidate (home page, then project_urls in order) that holds the marker.
C9_FirstMarkerCandidateDecides ==
    (fpc = "done" /\ ~Failed(fin)) =>
        LET urls == <<fin.home_page>> \o fin.project_urls
        IN  fout = IF MarkerCandidates(urls) = {} THEN <<>>
                   ELSE parse_github_repo(urls[Min(MarkerCandidates(urls))])

\* C9 amended: the result is what the parser makes of the first candidate (home
\* page, then project_urls in order) that holds the marker and on which the parser
\* yields an id; candidates on which it yields nothing are passed over; the result
\* is empty when there is no such candidate or the call failed.
C9_FirstParsableCandidateDecides ==
    fpc = "done" =>
        LET urls == <<fin.home_page>> \o fin.project_urls
            good == {k \in MarkerCandidates(urls) : parse_github_repo(urls[k]) # <<>>}
        IN  fout = IF Failed(fin) \/ good = {} THEN <<>>
                   ELSE parse_github_repo(urls[Min(good)])

C9_Witness ==
    /\ fpc = "done"
    /\ fout # <<>>
    /\ LET urls == <<fin.home_page>> \o fin.project_urls
       IN  /\ MarkerCandidates(urls) # {}
           /\ parse_github_repo(urls[Min(MarkerCandidates(urls))]) = <<>>
           /\ \E k \in MarkerCandidates(urls) :
                 parse_github_repo(urls[k]) # <<>> /\ parse_github_repo(urls[k]) # fout

====
